---- MODULE Spec2Model ----
(***************************************************************************)
(* BVH construction (src/src/bvh.rs), AABB (src/src/aabb.rs) and the ray   *)
(* queries (src/src/ray.rs) of the renderer, as a state machine.           *)
(*                                                                         *)
(* Numbers.  Vertex coordinates and ray components are integers.  The      *)
(* f32 values the code derives from them are kept exact: a slab distance   *)
(* or a box corner is an extended number (finite, +inf, -inf or NaN) with  *)
(* the IEEE-754 rules for -, *, <, >= and Rust's f32::min / f32::max;      *)
(* a quotient (hit distance, barycentric coordinate, centroid, split       *)
(* position) is a fraction num/den with den > 0, compared by cross         *)
(* multiplication.  Rounding error of f32 is therefore not modelled.       *)
(***************************************************************************)
EXTENDS Integers, Sequences, FiniteSets, TLC

(***************************************************************************)
(* Bounds of the model.                                                    *)
(***************************************************************************)
\* longest triangle list handed to Bvh::construct
MaxTris == 4
\* number of queries that may be in flight on the built BVH at once
NumQueries == 2
\* longest triangle list of the BVH the concurrent queries run on
MaxConcTris == 3
\* number of AABB::grow calls applied to one box in the AABB specification
MaxGrow == 3
\* largest coordinate of the origin of a ray handed to AABB::intersects on
\* its own (the smallest is -1)
MaxPos == 3
\* largest coordinate, in absolute value, of the origin of a ray handed to
\* Sphere::intersects on its own
MaxOrigin == 5
\* longest triangle list partition is called on, on its own
MaxPartTris == 3
\* longest mesh queue and longest sphere queue of a frame
MaxMeshes == 2
MaxSpheres == 2
\* number of nested draw_bvh_sub calls the stack has room for
MaxStack == 4
\* largest coordinate of the origin of a ray handed to Triangle::intersects
\* on its own (the smallest is -1)
MaxTriPos == 1

(***************************************************************************)
(* Extended numbers: the f32 values of the slab test and of box corners.   *)
(***************************************************************************)
Fin(n) == <<"fin", n>>
PInf == <<"inf", 1>>
NInf == <<"inf", -1>>
NaN == <<"nan", 0>>

IsNaN(a) == a[1] = "nan"
IsFin(a) == a[1] = "fin"
IsInf(a) == a[1] = "inf"

SignOf(a) == IF a[2] > 0 THEN 1 ELSE IF a[2] < 0 THEN -1 ELSE 0

\* a - b on f32: inf - inf of the same sign is NaN
FSub(a, b) ==
    IF IsNaN(a) \/ IsNaN(b) THEN NaN
    ELSE IF IsFin(a) /\ IsFin(b) THEN Fin(a[2] - b[2])
    ELSE IF IsInf(a) /\ IsFin(b) THEN a
    ELSE IF IsFin(a) /\ IsInf(b) THEN <<"inf", -b[2]>>
    ELSE IF a[2] = b[2] THEN NaN ELSE a

\* a * b on f32: 0 * inf is NaN
FMul(a, b) ==
    IF IsNaN(a) \/ IsNaN(b) THEN NaN
    ELSE IF IsFin(a) /\ IsFin(b) THEN Fin(a[2] * b[2])
    ELSE IF SignOf(a) = 0 \/ SignOf(b) = 0 THEN NaN
    ELSE <<"inf", SignOf(a) * SignOf(b)>>

\* a < b on f32: false when either side is NaN
FLt(a, b) ==
    IF IsNaN(a) \/ IsNaN(b) THEN FALSE
    ELSE IF IsFin(a) /\ IsFin(b) THEN a[2] < b[2]
    ELSE IF IsInf(a) /\ IsInf(b) THEN a[2] < b[2]
    ELSE IF IsInf(a) THEN a[2] < 0
    ELSE b[2] > 0

FGt(a, b) == FLt(b, a)

\* a >= b on f32: false when either side is NaN
FGe(a, b) == ~IsNaN(a) /\ ~IsNaN(b) /\ ~FLt(a, b)

\* f32::min and f32::max: if one argument is NaN the other is returned
FMin(a, b) == IF IsNaN(a) THEN b ELSE IF IsNaN(b) THEN a ELSE IF FLt(b, a) THEN b ELSE a
FMax(a, b) == IF IsNaN(a) THEN b ELSE IF IsNaN(b) THEN a ELSE IF FLt(a, b) THEN b ELSE a

(***************************************************************************)
(* Integer vectors (glam::Vec3 on exact coordinates).                      *)
(***************************************************************************)
Dot(a, b) == a[1] * b[1] + a[2] * b[2] + a[3] * b[3]
Cross(a, b) == << a[2] * b[3] - a[3] * b[2],
                  a[3] * b[1] - a[1] * b[3],
                  a[1] * b[2] - a[2] * b[1] >>
VSub(a, b) == << a[1] - b[1], a[2] - b[2], a[3] - b[3] >>

\* a triangle keeps the positions of its three vertices
Tri(a, b, c) == [v0 |-> a, v1 |-> b, v2 |-> c]

(***************************************************************************)
(* Ray::new: one_over_direction = 1 / direction, component-wise.  The ray  *)
(* directions of the model have components in {-1, 0, 1}: 1/0 is +inf and  *)
(* 1/d is d itself for d = 1 and d = -1.                                   *)
(***************************************************************************)
OneOver(d) == IF d = 0 THEN PInf ELSE IF d = 1 THEN Fin(1) ELSE Fin(-1)

RayNew(position, direction) ==
    [position |-> position,
     direction |-> direction,
     one_over_direction |-> << OneOver(direction[1]), OneOver(direction[2]),
                               OneOver(direction[3]) >>]

(***************************************************************************)
(* AABB                                                                    *)
(***************************************************************************)
AABBNew == [min |-> <<PInf, PInf, PInf>>, max |-> <<NInf, NInf, NInf>>]

\* AABB::grow: every component is position.c.min(position.c), resp. max:
\* the box's previous corners are not read
AABBGrow(box, position) ==
    [min |-> << FMin(Fin(position[1]), Fin(position[1])),
                FMin(Fin(position[2]), Fin(position[2])),
                FMin(Fin(position[3]), Fin(position[3])) >>,
     max |-> << FMax(Fin(position[1]), Fin(position[1])),
                FMax(Fin(position[2]), Fin(position[2])),
                FMax(Fin(position[3]), Fin(position[3])) >>]

\* one axis of the slab test: <<min(t1, t2), max(t1, t2)>>
Slab(box, ray, c) ==
    LET t1 == FMul(FSub(box.min[c], Fin(ray.position[c])), ray.one_over_direction[c])
        t2 == FMul(FSub(box.max[c], Fin(ray.position[c])), ray.one_over_direction[c])
    IN  << FMin(t1, t2), FMax(t1, t2) >>

\* AABB::intersects
AABBIntersects(box, ray) ==
    LET sx == Slab(box, ray, 1)
        sy == Slab(box, ray, 2)
        sz == Slab(box, ray, 3)
        tmin1 == FMax(sy[1], sx[1])
        tmax1 == FMin(sy[2], sx[2])
        tmin == FMax(sz[1], tmin1)
        tmax == FMin(sz[2], tmax1)
    IN  FGe(tmax, tmin) /\ FGe(tmax, Fin(0))

(***************************************************************************)
(* Triangle::intersects (Moeller-Trumbore).  u, v and t are inv_det times  *)
(* an integer, kept as the numerators un, vn, num over den = det > 0.      *)
(***************************************************************************)
NoHit == [hit |-> FALSE, num |-> 0, den |-> 1, un |-> 0, vn |-> 0]

\* faulty variant of TriangleIntersects: no test of t > 0.0
TriangleIntersectsAnyT(tri, ray) ==
    LET edge1 == VSub(tri.v1, tri.v0)
        edge2 == VSub(tri.v2, tri.v0)
        h == Cross(ray.direction, edge2)
        det == Dot(edge1, h)
        v0_ray == VSub(ray.position, tri.v0)
        un == Dot(v0_ray, h)
        q == Cross(v0_ray, edge1)
        vn == Dot(ray.direction, q)
        tn == Dot(edge2, q)
    IN  IF det <= 0 THEN NoHit
        ELSE IF ~(0 <= un /\ un <= det) THEN NoHit
        ELSE IF vn < 0 \/ un + vn > det THEN NoHit
        ELSE [hit |-> TRUE, num |-> tn, den |-> det, un |-> un, vn |-> vn]

TriangleIntersects(tri, ray) ==
    LET edge1 == VSub(tri.v1, tri.v0)
        edge2 == VSub(tri.v2, tri.v0)
        h == Cross(ray.direction, edge2)
        det == Dot(edge1, h)
        v0_ray == VSub(ray.position, tri.v0)
        un == Dot(v0_ray, h)
        q == Cross(v0_ray, edge1)
        vn == Dot(ray.direction, q)
        tn == Dot(edge2, q)
    IN  IF det <= 0 THEN NoHit
        ELSE IF ~(0 <= un /\ un <= det) THEN NoHit
        ELSE IF vn < 0 \/ un + vn > det THEN NoHit
        ELSE IF tn > 0 THEN [hit |-> TRUE, num |-> tn, den |-> det, un |-> un, vn |-> vn]
        ELSE NoHit

(***************************************************************************)
(* Sphere and Sphere::intersects.  Positions and unit directions have      *)
(* integer components, so b, c and d are integers.  sqrt(d) is kept        *)
(* exact: a distance -b - sqrt(d) or -b + sqrt(d) is the record            *)
(* [minus_b, sign, d] that stands for minus_b + sign * sqrt(d), and its    *)
(* sign is found by comparing squares.                                     *)
(***************************************************************************)
SphereNew(position, radius) == [position |-> position, radius_squared |-> radius * radius]

Surd(minus_b, sign, d) == [minus_b |-> minus_b, sign |-> sign, d |-> d]

\* -1, 0 or 1: the sign of m + sqrt(d), for d >= 0
SignPlusRoot(m, d) ==
    IF m >= 0 THEN (IF m = 0 /\ d = 0 THEN 0 ELSE 1)
    ELSE IF d > m * m THEN 1 ELSE IF d = m * m THEN 0 ELSE -1

\* the sign of the distance x: m - sqrt(d) is -(-m + sqrt(d))
SurdSign(x) ==
    IF x.sign = 1 THEN SignPlusRoot(x.minus_b, x.d) ELSE 0 - SignPlusRoot(0 - x.minus_b, x.d)

NoSphereHit == [some |-> FALSE, distance |-> Surd(0, 1, 0)]

\* faulty variant of SphereIntersects: distance1 is returned whatever its sign
SphereIntersectsNear(sphere, ray) ==
    LET o2c == VSub(ray.position, sphere.position)
        b == Dot(o2c, ray.direction)
        c == Dot(o2c, o2c) - sphere.radius_squared
        d == b * b - c
    IN  IF d >= 0 THEN [some |-> TRUE, distance |-> Surd(0 - b, -1, d)]
        ELSE NoSphereHit
\* Sphere::intersects: the distance of the HitInfoExt it returns, or None
SphereIntersects(sphere, ray) ==
    LET o2c == VSub(ray.position, sphere.position)
        b == Dot(o2c, ray.direction)
        c == Dot(o2c, o2c) - sphere.radius_squared
        d == b * b - c
    IN  IF d >= 0
        THEN LET distance1 == Surd(0 - b, -1, d)
                 distance2 == Surd(0 - b, 1, d)
             IN  IF SurdSign(distance1) >= 0
                 THEN [some |-> TRUE, distance |-> distance1]
                 ELSE [some |-> TRUE, distance |-> distance2]
        ELSE NoSphereHit

(***************************************************************************)
(* Fractions num/den with den > 0.                                         *)
(***************************************************************************)
Frac(n, d) == [num |-> n, den |-> d]
FracGt(a, b) == a.num * b.den > b.num * a.den
FracEq(a, b) == a.num * b.den = b.num * a.den

(***************************************************************************)
(* Bvh: nodes, indices and triangles are Vec's indexed from 0.             *)
(***************************************************************************)
At(s, i) == s[i + 1]
SetAt(s, i, x) == [s EXCEPT ![i + 1] = x]
InRange(s, i) == 0 <= i /\ i < Len(s)

\* count of an internal node (bvh.rs: node.count = -1)
NotLeaf == -1
\* subdivide stops at count <= 2 ...
LeafCount == 2
\* ... or at rec_depth > 30
DepthCap == 30

BvhNode(bounds, left_first, count) ==
    [bounds |-> bounds, left_first |-> left_first, count |-> count]

\* indices: (0..triangles.len()).collect()
IdentityIndices(n) == [k \in 1..n |-> k - 1]

\* the root node pushed by construct
RootNode(n) == BvhNode(AABBNew, 0, n)

\* subdivide, "Calculate node bounds": grow over the three vertices of
\* every triangle of indices[i..end)
RECURSIVE GrowRange(_, _, _, _, _)
GrowRange(box, i, end, idx, tris) ==
    IF i >= end THEN box
    ELSE LET triangle == At(tris, At(idx, i))
         IN  GrowRange(AABBGrow(AABBGrow(AABBGrow(box, triangle.v0), triangle.v1),
                                triangle.v2),
                       i + 1, end, idx, tris)

\* sum over indices[i..end) of the three vertices' coordinate c
RECURSIVE CoordSum(_, _, _, _, _)
CoordSum(i, end, idx, tris, c) ==
    IF i >= end THEN 0
    ELSE LET triangle == At(tris, At(idx, i))
         IN  triangle.v0[c] + triangle.v1[c] + triangle.v2[c]
             + CoordSum(i + 1, end, idx, tris, c)

\* subdivide, "Get the average position": avg = (sum of position / 3) / divide
Average(begin, end, idx, tris, c) ==
    Frac(CoordSum(begin, end, idx, tris, c), 3 * (end - begin))

\* subdivide, "Determine split axis": 1 = X, 2 = Y, 3 = Z
SplitAxis(bounds) ==
    LET sx == FSub(bounds.max[1], bounds.min[1])
        sy == FSub(bounds.max[2], bounds.min[2])
        sz == FSub(bounds.max[3], bounds.min[3])
    IN  IF FGt(sx, sy) /\ FGt(sx, sz) THEN 1
        ELSE IF FGt(sy, sx) /\ FGt(sy, sz) THEN 2
        ELSE 3

\* faulty variant of Center: the first vertex instead of the centre
CenterOfV0(tri, axis) == Frac(tri.v0[axis], 1)
\* partition, "Get triangle center" on the axis
Center(tri, axis) == Frac(tri.v0[axis] + tri.v1[axis] + tri.v2[axis], 3)

\* faulty variant of Swap: indices[i] = indices[j] without the exchange
SwapOneWay(idx, i, j) == [idx EXCEPT ![i + 1] = idx[j + 1]]
\* (indices[i], indices[j]) = (indices[j], indices[i])
Swap(idx, i, j) == [idx EXCEPT ![i + 1] = idx[j + 1], ![j + 1] = idx[i + 1]]

\* the while loop of partition; returns the index array and i
RECURSIVE PartitionLoop(_, _, _, _, _, _)
PartitionLoop(idx, tris, axis, pivot, i, j) ==
    IF ~(i <= j) THEN [indices |-> idx, split |-> i]
    ELSE IF FracGt(Center(At(tris, At(idx, i)), axis), pivot)
         THEN PartitionLoop(Swap(idx, i, j), tris, axis, pivot, i, j - 1)
         ELSE PartitionLoop(idx, tris, axis, pivot, i + 1, j)

Partition(idx, tris, axis, pivot, start, count) ==
    PartitionLoop(idx, tris, axis, pivot, start, start + count - 1)

\* faulty variant of LeftChild: a left child that holds no triangle
LeftChildEmpty(start_index, node_count, split_index) == BvhNode(AABBNew, start_index, 0)
\* the two child nodes pushed by subdivide
LeftChild(start_index, node_count, split_index) ==
    BvhNode(AABBNew, start_index, split_index - start_index)
RightChild(start_index, node_count, split_index) ==
    BvhNode(AABBNew, split_index, start_index + node_count - split_index)

\* faulty variant of InternalNode: left_first is one past the left child
InternalNodeOffByOne(bounds, left) == BvhNode(bounds, left + 1, NotLeaf)
\* subdivide, node.left_first = left; node.count = -1: the node that was split
InternalNode(bounds, left) == BvhNode(bounds, left, NotLeaf)

\* faulty variant of AbortedNode: the abort does not restore count
AbortedNodeNoRestore(bounds, left, node_count) == BvhNode(bounds, left, NotLeaf)
\* subdivide, "Abort if one of the sides is empty": the node was already made
\* internal (count = -1, left_first = left); the abort restores count, and
\* only count
AbortedNode(bounds, left, node_count) == BvhNode(bounds, left, node_count)

\* what subdivide determines for a node it does not try to split
NoSplit == [axis |-> 0, pos |-> Frac(0, 1)]

\* subdivide, "Determine split axis": the (split_axis, split_pos) of one call,
\* NoSplit when the call returns at "Only subdivide if ..."
SplitOf(nds, idx, tris, node_index, rec_depth) ==
    LET node == At(nds, node_index)
        begin == node.left_first
        end == begin + node.count
        bounds == GrowRange(node.bounds, begin, end, idx, tris)
    IN  IF node.count <= LeafCount \/ rec_depth > DepthCap THEN NoSplit
        ELSE [axis |-> SplitAxis(bounds),
              pos |-> Average(begin, end, idx, tris, SplitAxis(bounds))]

\* faulty variant of SubdivideStep: no test of rec_depth
SubdivideStepNoCap(nds, idx, tris, node_index, rec_depth) ==
    LET left == Len(nds)
        node == At(nds, node_index)
        begin == node.left_first
        end == begin + node.count
        bounds == GrowRange(node.bounds, begin, end, idx, tris)
    IN  IF node.count <= LeafCount
        THEN [nodes |-> SetAt(nds, node_index, [node EXCEPT !.bounds = bounds]),
              indices |-> idx, calls |-> <<>>]
        ELSE
        LET axis == SplitAxis(bounds)
            split_pos == Average(begin, end, idx, tris, axis)
            part == Partition(idx, tris, axis, split_pos, node.left_first, node.count)
        IN  IF part.split - node.left_first = 0 \/ part.split - node.left_first = node.count
            THEN [nodes |-> SetAt(nds, node_index, BvhNode(bounds, left, node.count)),
                  indices |-> part.indices, calls |-> <<>>]
            ELSE [nodes |-> SetAt(nds, node_index, BvhNode(bounds, left, NotLeaf))
                            \o << BvhNode(AABBNew, node.left_first, part.split - node.left_first),
                                  BvhNode(AABBNew, part.split,
                                          node.left_first + node.count - part.split) >>,
                  indices |-> part.indices,
                  calls |-> << <<left, rec_depth + 1>>, <<left + 1, rec_depth + 1>> >>]

\* One call of subdivide up to its recursive calls: the new node and index
\* arrays and the calls <<node_index, rec_depth>> it goes on to make, in order.
SubdivideStep(nds, idx, tris, node_index, rec_depth) ==
    LET left == Len(nds)
        node == At(nds, node_index)
        begin == node.left_first
        end == begin + node.count
        bounds == GrowRange(node.bounds, begin, end, idx, tris)
    IN  IF node.count <= LeafCount \/ rec_depth > DepthCap
        THEN [nodes |-> SetAt(nds, node_index, [node EXCEPT !.bounds = bounds]),
              indices |-> idx, calls |-> <<>>]
        ELSE
        LET axis == SplitAxis(bounds)
            split_pos == Average(begin, end, idx, tris, axis)
            start_index == node.left_first
            node_count == node.count
            part == Partition(idx, tris, axis, split_pos, start_index, node_count)
            split_index == part.split
        IN  IF split_index - start_index = 0 \/ split_index - start_index = node_count
            THEN [nodes |-> SetAt(nds, node_index, AbortedNode(bounds, left, node_count)),
                  indices |-> part.indices, calls |-> <<>>]
            ELSE [nodes |-> SetAt(nds, node_index, InternalNode(bounds, left))
                            \o << LeftChild(start_index, node_count, split_index),
                                  RightChild(start_index, node_count, split_index) >>,
                  indices |-> part.indices,
                  calls |-> << <<left, rec_depth + 1>>, <<left + 1, rec_depth + 1>> >>]

\* subdivide with its recursive calls: depth-first from the pending calls
RECURSIVE RunSubdivide(_, _, _, _)
RunSubdivide(nds, idx, tris, pending) ==
    IF pending = <<>> THEN [nodes |-> nds, indices |-> idx, triangles |-> tris]
    ELSE LET r == SubdivideStep(nds, idx, tris, Head(pending)[1], Head(pending)[2])
         IN  RunSubdivide(r.nodes, r.indices, tris, r.calls \o Tail(pending))

\* Bvh::construct as a function of the triangle list
BvhConstruct(tris) ==
    RunSubdivide(<< RootNode(Len(tris)) >>, IdentityIndices(Len(tris)), tris, << <<0, 0>> >>)

(***************************************************************************)
(* Bvh::intersects.  The accumulator is a HitInfo: distance is +inf        *)
(* (inf = TRUE) or num/den.  An out-of-bounds access of a Vec panics.      *)
(***************************************************************************)
\* faulty variant of NewHitInfo: the accumulator starts at distance 0
NewHitInfoZero == [inf |-> FALSE, num |-> 0, den |-> 1, un |-> 0, vn |-> 0,
                   triangle_index |-> -1]
\* HitInfo { distance: f32::INFINITY, .., triangle_index: -1 }
NewHitInfo == [inf |-> TRUE, num |-> 0, den |-> 1, un |-> 0, vn |-> 0,
               triangle_index |-> -1]

\* faulty variant of Closer: <= in place of <
CloserOrEqual(new, hit_info) ==
    /\ (hit_info.inf \/ new.num * hit_info.den <= hit_info.num * new.den)
    /\ new.num >= 0
\* new_hit_info.distance < hit_info.distance && new_hit_info.distance >= 0.0
Closer(new, hit_info) ==
    /\ (hit_info.inf \/ new.num * hit_info.den < hit_info.num * new.den)
    /\ new.num >= 0

\* faulty variant of LeafLoop: triangle_index is i, the position in the index
\* array, not self.indices[i]
RECURSIVE LeafLoopPosition(_, _, _, _, _, _)
LeafLoopPosition(idx, tris, ray, i, end, hit_info) ==
    IF i >= end THEN [panic |-> FALSE, hit |-> hit_info]
    ELSE IF ~InRange(idx, i) THEN [panic |-> TRUE, hit |-> hit_info]
    ELSE IF ~InRange(tris, At(idx, i)) THEN [panic |-> TRUE, hit |-> hit_info]
    ELSE LET new == TriangleIntersects(At(tris, At(idx, i)), ray)
         IN  IF new.hit /\ (hit_info.inf \/ new.num * hit_info.den < hit_info.num * new.den)
                        /\ new.num >= 0
             THEN LeafLoopPosition(idx, tris, ray, i + 1, end,
                                   [inf |-> FALSE, num |-> new.num, den |-> new.den,
                                    un |-> new.un, vn |-> new.vn, triangle_index |-> i])
             ELSE LeafLoopPosition(idx, tris, ray, i + 1, end, hit_info)

\* the loop over a leaf's triangles, from i to end
RECURSIVE LeafLoop(_, _, _, _, _, _)
LeafLoop(idx, tris, ray, i, end, hit_info) ==
    IF i >= end THEN [panic |-> FALSE, hit |-> hit_info]
    ELSE IF ~InRange(idx, i) THEN [panic |-> TRUE, hit |-> hit_info]
    ELSE IF ~InRange(tris, At(idx, i)) THEN [panic |-> TRUE, hit |-> hit_info]
    ELSE LET new == TriangleIntersects(At(tris, At(idx, i)), ray)
         IN  IF new.hit /\ Closer(new, hit_info)
             THEN LeafLoop(idx, tris, ray, i + 1, end,
                           [inf |-> FALSE, num |-> new.num, den |-> new.den,
                            un |-> new.un, vn |-> new.vn,
                            triangle_index |-> At(idx, i)])
             ELSE LeafLoop(idx, tris, ray, i + 1, end, hit_info)

\* faulty variant of IntersectsSub: the left child is visited twice, the
\* right child never
IntersectsSubLeftTwice(nds, idx, tris, ray, node_index, hit_info) ==
    IF ~InRange(nds, node_index) THEN [panic |-> TRUE, hit |-> hit_info, calls |-> <<>>]
    ELSE LET node == At(nds, node_index)
         IN  IF ~AABBIntersects(node.bounds, ray)
             THEN [panic |-> FALSE, hit |-> hit_info, calls |-> <<>>]
             ELSE IF node.count # NotLeaf
             THEN LET r == LeafLoop(idx, tris, ray, node.left_first,
                                    node.left_first + node.count, hit_info)
                  IN  [panic |-> r.panic, hit |-> r.hit, calls |-> <<>>]
             ELSE [panic |-> FALSE, hit |-> hit_info,
                   calls |-> << node.left_first + 0, node.left_first + 0 >>]

\* One call of intersects_sub up to its recursive calls: the accumulator
\* afterwards and the node indices it goes on to visit, in order.
IntersectsSub(nds, idx, tris, ray, node_index, hit_info) ==
    IF ~InRange(nds, node_index) THEN [panic |-> TRUE, hit |-> hit_info, calls |-> <<>>]
    ELSE LET node == At(nds, node_index)
         IN  IF ~AABBIntersects(node.bounds, ray)
             THEN [panic |-> FALSE, hit |-> hit_info, calls |-> <<>>]
             ELSE IF node.count # NotLeaf
             THEN LET r == LeafLoop(idx, tris, ray, node.left_first,
                                    node.left_first + node.count, hit_info)
                  IN  [panic |-> r.panic, hit |-> r.hit, calls |-> <<>>]
             ELSE [panic |-> FALSE, hit |-> hit_info,
                   calls |-> << node.left_first + 0, node.left_first + 1 >>]

\* The triangles one call of intersects_sub hands to Triangle::intersects,
\* in order: none if the node's box is missed or the node is internal, else
\* those of the leaf's range, up to the first index that is out of bounds.
Tested(nds, idx, tris, ray, node_index) ==
    IF ~InRange(nds, node_index) THEN <<>>
    ELSE LET node == At(nds, node_index)
             begin == node.left_first
             end == node.left_first + node.count
             stop == IF end <= Len(idx) THEN end ELSE Len(idx)
         IN  IF ~AABBIntersects(node.bounds, ray) \/ node.count = NotLeaf \/ begin < 0
             THEN <<>>
             ELSE [k \in 1..(stop - begin) |-> At(idx, begin + k - 1)]

\* what Bvh::intersects returns for the final accumulator
NoneResult == [kind |-> "none", num |-> 0, den |-> 1, triangle_index |-> -1]
PanicResult == [kind |-> "panic", num |-> 0, den |-> 1, triangle_index |-> -1]

\* faulty variant of QueryResult: no test of distance == INFINITY
QueryResultUnchecked(tris, hit_info) ==
    IF ~InRange(tris, hit_info.triangle_index) THEN PanicResult
    ELSE [kind |-> "some", num |-> hit_info.num, den |-> hit_info.den,
          triangle_index |-> hit_info.triangle_index]
QueryResult(tris, hit_info) ==
    IF hit_info.inf THEN NoneResult
    ELSE IF ~InRange(tris, hit_info.triangle_index) THEN PanicResult
    ELSE [kind |-> "some", num |-> hit_info.num, den |-> hit_info.den,
          triangle_index |-> hit_info.triangle_index]

\* Vertex::from_triangle_with_uv on the triangle the accumulator names: the
\* position v0 + (v1 - v0) * u + (v2 - v0) * v of vertex_interpolated, each
\* coordinate a fraction over det
VertexInterpolated(tris, hit_info) ==
    LET triangle == At(tris, hit_info.triangle_index)
    IN  [c \in 1..3 |->
            Frac(triangle.v0[c] * hit_info.den
                 + (triangle.v1[c] - triangle.v0[c]) * hit_info.un
                 + (triangle.v2[c] - triangle.v0[c]) * hit_info.vn,
                 hit_info.den)]

\* a whole query run on its own: depth-first from the pending calls
RECURSIVE RunQuery(_, _, _, _, _, _)
RunQuery(nds, idx, tris, ray, pending, hit_info) ==
    IF pending = <<>> THEN QueryResult(tris, hit_info)
    ELSE LET r == IntersectsSub(nds, idx, tris, ray, Head(pending), hit_info)
         IN  IF r.panic THEN PanicResult
             ELSE RunQuery(nds, idx, tris, ray, r.calls \o Tail(pending), r.hit)

BvhIntersects(nds, idx, tris, ray) == RunQuery(nds, idx, tris, ray, <<0>>, NewHitInfo)

(***************************************************************************)
(* The per-pixel loop of end_frame_raytrace_cpu.  A distance of the        *)
(* accumulator is (a + s * sqrt(d)) / q with q > 0: a distance num / den   *)
(* returned by Bvh::intersects or minus_b + sign * sqrt(d) returned by     *)
(* Sphere::intersects.  Distances are compared exactly, by their squares.  *)
(***************************************************************************)
RECURSIVE Gcd(_, _)
Gcd(m, n) == IF n = 0 THEN m ELSE Gcd(n, m % n)

Abs(z) == IF z < 0 THEN 0 - z ELSE z
Sgn(z) == IF z < 0 THEN -1 ELSE IF z = 0 THEN 0 ELSE 1
\* z * |z|: a < b iff SignedSquare(a) < SignedSquare(b)
SignedSquare(z) == z * Abs(z)

Dist(a, s, d, q) == [a |-> a, s |-> s, d |-> d, q |-> q]
\* the f32 num / den, in lowest terms
DistOfFrac(num, den) ==
    LET g == Gcd(Abs(num), den) IN Dist(num \div g, 1, 0, den \div g)
\* the f32 minus_b + sign * sqrt(d)
DistOfSurd(x) == Dist(x.minus_b, x.sign, x.d, 1)

\* x < y.  With both sides multiplied by x.q * y.q this is a1 + u < a2 + v
\* for u = s1 * sqrt(d1) and v = s2 * sqrt(d2), that is u - R < v with
\* R = a2 - a1, settled by comparing signed squares twice
DistLt(x, y) ==
    LET a1 == x.a * y.q
        d1 == x.d * y.q * y.q
        a2 == y.a * x.q
        d2 == y.d * x.q * x.q
        R == a2 - a1
        sigma == Sgn(x.s * d1 - SignedSquare(R))
        A == sigma * (d1 + R * R) - y.s * d2
        B2 == sigma * x.s * Sgn(R) * 4 * R * R * d1
    IN  SignedSquare(A) < B2

\* distance > 0.0
DistPositive(x) == DistLt(Dist(0, 1, 0, 1), x)

\* HitInfoExt { distance: f32::INFINITY, .. }
NewHitInfoExt == [inf |-> TRUE, distance |-> Dist(0, 1, 0, 1)]

\* curr_hit_info.distance < hit_info.distance
MeshCloser(curr, hit_info) == hit_info.inf \/ DistLt(curr, hit_info.distance)

\* faulty variant of SphereCloser: no test of distance > 0.0
SphereCloserAnySign(curr, hit_info) == hit_info.inf \/ DistLt(curr, hit_info.distance)
\* curr_hit_info.distance < hit_info.distance && curr_hit_info.distance > 0.0
SphereCloser(curr, hit_info) ==
    /\ hit_info.inf \/ DistLt(curr, hit_info.distance)
    /\ DistPositive(curr)

\* mesh.bvh of a queued mesh: None, or Some(Bvh::construct(triangles))
NoBvh == [some |-> FALSE, bvh |-> BvhConstruct(<<>>)]
SomeBvh(tris) == [some |-> TRUE, bvh |-> BvhConstruct(tris)]

\* the loop over the mesh queue; a panic of Bvh::intersects ends the frame
RECURSIVE MeshLoop(_, _, _)
MeshLoop(mesh_queue, ray, hit_info) ==
    IF mesh_queue = <<>> THEN [panic |-> FALSE, hit |-> hit_info]
    ELSE LET entry == Head(mesh_queue)
         IN  IF ~entry.some THEN MeshLoop(Tail(mesh_queue), ray, hit_info)
             ELSE LET r == BvhIntersects(entry.bvh.nodes, entry.bvh.indices,
                                         entry.bvh.triangles, ray)
                      curr == DistOfFrac(r.num, r.den)
                  IN  IF r.kind = "panic" THEN [panic |-> TRUE, hit |-> hit_info]
                      ELSE IF r.kind = "some" /\ MeshCloser(curr, hit_info)
                      THEN MeshLoop(Tail(mesh_queue), ray,
                                    [inf |-> FALSE, distance |-> curr])
                      ELSE MeshLoop(Tail(mesh_queue), ray, hit_info)

\* the loop over the sphere queue
RECURSIVE SphereLoop(_, _, _)
SphereLoop(sphere_queue, ray, hit_info) ==
    IF sphere_queue = <<>> THEN hit_info
    ELSE LET r == SphereIntersects(Head(sphere_queue), ray)
             curr == DistOfSurd(r.distance)
         IN  IF r.some /\ SphereCloser(curr, hit_info)
             THEN SphereLoop(Tail(sphere_queue), ray, [inf |-> FALSE, distance |-> curr])
             ELSE SphereLoop(Tail(sphere_queue), ray, hit_info)

(***************************************************************************)
(* Inputs: the triangles a mesh may consist of, and the rays cast at it.   *)
(* TriA, TriB, TriC are stacked at z = 0, 3, 12 and share the x and y of   *)
(* their vertices; TriD lies beside TriA in the plane z = 0.               *)
(***************************************************************************)
TriA == Tri(<<0, 0, 0>>, <<4, 0, 0>>, <<0, 4, 0>>)
TriB == Tri(<<0, 0, 3>>, <<4, 0, 3>>, <<0, 4, 3>>)
TriC == Tri(<<0, 0, 12>>, <<4, 0, 12>>, <<0, 4, 12>>)
TriD == Tri(<<4, 4, 0>>, <<8, 4, 0>>, <<4, 8, 0>>)
Triangles == {TriA, TriB, TriC, TriD}

TriLists == UNION {[1..n -> Triangles] : n \in 0..MaxTris}

Rays == { RayNew(<<1, 1, 13>>, <<0, 0, -1>>),    \* down through the interiors of A, B, C
          RayNew(<<0, 4, 13>>, <<0, 0, -1>>),    \* down through vertex v2 of A, B, C
          RayNew(<<4, 8, 13>>, <<0, 0, -1>>),    \* down through vertex v2 of D
          RayNew(<<9, 9, 13>>, <<0, 0, -1>>),    \* down, beside every triangle
          RayNew(<<0, 4, -1>>, <<0, 0, 1>>),     \* up, onto the back faces
          RayNew(<<4, 0, 4>>, <<-1, 1, -1>>) }   \* slanted, through B to vertex v2 of A

Queries == 1..NumQueries

\* the points passed to AABB::grow in the AABB specification
Points == {<<x, y, z>> : x \in {-1, 2}, y \in {0, 3}, z \in {1, 4}}

(***************************************************************************)
(* State.                                                                  *)
(*   triangles, indices, nodes : the fields of Bvh                         *)
(*   pc       : "input" before Bvh::construct, "subdivide" while it runs,  *)
(*              "built" once it has returned                               *)
(*   calls    : the pending subdivide calls <<node_index, rec_depth>>,     *)
(*              the next one first                                         *)
(*   input    : the triangle list handed to construct (history)            *)
(*   orig     : per node, the index range it was created with (history)    *)
(*   parent   : per node, the node whose subdivide pushed it, -1 for the   *)
(*              root (history)                                             *)
(*   queries  : per query, its ray, accumulator, pending intersects_sub    *)
(*              calls and result                                           *)
(*   box, grown : an AABB and the points passed to its grow so far         *)
(*   chosen   : per node, the split axis and split position its subdivide  *)
(*              determined, NoSplit if it returned before (history)        *)
(*   args, ret : the arguments and the return value of a function that is  *)
(*              called on its own (AABB::intersects, Sphere::intersects,   *)
(*              partition); <<>> when there is none                        *)
(*   walk     : per query, the calls of intersects_sub made so far (node   *)
(*              and recursion depth, the first call at depth 1), the      *)
(*              depths of the pending calls, and the triangles handed to  *)
(*              Triangle::intersects so far, in order (history)           *)
(***************************************************************************)
VARIABLES triangles, indices, nodes, pc, calls, input, orig, parent, queries, box, grown,
          chosen, args, ret, walk, line_queue, draw

vars == <<triangles, indices, nodes, pc, calls, input, orig, parent, queries, box, grown,
          chosen, args, ret, walk, line_queue, draw>>
bvhVars == <<triangles, indices, nodes, pc, calls, input, orig, parent, chosen>>

IdleWalk == [visited |-> <<>>, depths |-> <<>>, tested |-> <<>>]

\* no draw_bvh call yet; calls holds the draw_bvh_sub calls still to be made,
\* as <<node index, rec_depth>>, the innermost first
IdleDraw == [pc |-> "idle", calls |-> <<>>]

IdleQuery == [status |-> "idle", ray |-> RayNew(<<0, 0, 0>>, <<0, 0, 0>>),
              pending |-> <<>>, hit |-> NewHitInfo, result |-> NoneResult]

Init ==
    /\ input \in TriLists
    /\ triangles = <<>>
    /\ indices = <<>>
    /\ nodes = <<>>
    /\ pc = "input"
    /\ calls = <<>>
    /\ orig = <<>>
    /\ parent = <<>>
    /\ queries = [q \in Queries |-> IdleQuery]
    /\ walk = [q \in Queries |-> IdleWalk]
    /\ box = AABBNew
    /\ grown = {}
    /\ chosen = <<>>
    /\ args = <<>>
    /\ ret = <<>>
    /\ line_queue = <<>>
    /\ draw = IdleDraw

\* Bvh::construct up to its call of subdivide(0, 0)
Construct ==
    /\ pc = "input"
    /\ triangles' = input
    /\ indices' = IdentityIndices(Len(input))
    /\ nodes' = << RootNode(Len(input)) >>
    /\ calls' = << <<0, 0>> >>
    /\ orig' = << [first |-> 0, count |-> Len(input)] >>
    /\ parent' = << -1 >>
    /\ chosen' = << NoSplit >>
    /\ pc' = "subdivide"
    /\ UNCHANGED <<line_queue, draw, input, queries, walk, box, grown, args, ret>>

\* the next call of subdivide; construct returns after the last one
Subdivide ==
    /\ pc = "subdivide"
    /\ calls # <<>>
    /\ LET call == Head(calls)
           r == SubdivideStep(nodes, indices, triangles, call[1], call[2])
           pushed == Len(r.nodes) - Len(nodes)
       IN  /\ nodes' = r.nodes
           /\ indices' = r.indices
           /\ calls' = r.calls \o Tail(calls)
           /\ orig' = orig \o [k \in 1..pushed |->
                                 [first |-> r.nodes[Len(nodes) + k].left_first,
                                  count |-> r.nodes[Len(nodes) + k].count]]
           /\ parent' = parent \o [k \in 1..pushed |-> call[1]]
           /\ chosen' = SetAt(chosen, call[1],
                               SplitOf(nodes, indices, triangles, call[1], call[2]))
                         \o [k \in 1..pushed |-> NoSplit]
           /\ pc' = IF r.calls \o Tail(calls) = <<>> THEN "built" ELSE "subdivide"
    /\ UNCHANGED <<line_queue, draw, triangles, input, queries, walk, box, grown, args, ret>>

\* faulty variant of Accumulator: one hit_info shared by all queries
AccumulatorShared(qs, q) == qs[1].hit
\* the accumulator a call of intersects_sub reads and writes: the hit_info
\* local to its own call of Bvh::intersects
Accumulator(qs, q) == qs[q].hit

\* Bvh::intersects is called with a ray
StartQuery(q, ray) ==
    /\ pc = "built"
    /\ queries[q].status = "idle"
    /\ queries' = [queries EXCEPT ![q] =
                     [status |-> "running", ray |-> ray, pending |-> <<0>>,
                      hit |-> NewHitInfo, result |-> NoneResult]]
    /\ walk' = [walk EXCEPT ![q] = [visited |-> <<>>, depths |-> <<1>>, tested |-> <<>>]]
    /\ UNCHANGED <<line_queue, draw, bvhVars, box, grown, args, ret>>

\* the next call of intersects_sub of query q; after the last one
\* Bvh::intersects returns
QueryStep(q) ==
    /\ pc = "built"
    /\ queries[q].status = "running"
    /\ LET me == queries[q]
           r == IntersectsSub(nodes, indices, triangles, me.ray, Head(me.pending),
                              Accumulator(queries, q))
           rest == r.calls \o Tail(me.pending)
       IN  queries' = [queries EXCEPT ![q] =
             IF r.panic
             THEN [me EXCEPT !.status = "done", !.pending = <<>>, !.hit = r.hit,
                             !.result = PanicResult]
             ELSE IF rest = <<>>
             THEN [me EXCEPT !.status = "done", !.pending = <<>>, !.hit = r.hit,
                             !.result = QueryResult(triangles, r.hit)]
             ELSE [me EXCEPT !.pending = rest, !.hit = r.hit]]
    /\ LET me == queries[q]
           node_index == Head(me.pending)
           depth == Head(walk[q].depths)
           made == IntersectsSub(nodes, indices, triangles, me.ray, node_index,
                                 Accumulator(queries, q)).calls
       IN  walk' = [walk EXCEPT ![q] =
             [visited |-> Append(walk[q].visited, [node |-> node_index, depth |-> depth]),
              depths |-> [k \in 1..Len(made) |-> depth + 1] \o Tail(walk[q].depths),
              tested |-> walk[q].tested
                         \o Tested(nodes, indices, triangles, me.ray, node_index)]]
    /\ UNCHANGED <<line_queue, draw, bvhVars, box, grown, args, ret>>

\* one thread: construct, then one query at a time
Next ==
    \/ Construct
    \/ Subdivide
    \/ \E ray \in Rays : StartQuery(1, ray)
    \/ QueryStep(1)

Spec == Init /\ [][Next]_vars

(***************************************************************************)
(* Several threads querying the built BVH at once: the calls of            *)
(* intersects_sub of different queries interleave in any order.            *)
(***************************************************************************)
ConcTriLists == UNION {[1..n -> {TriA, TriB, TriC}] : n \in 0..MaxConcTris}

ConcRays == { RayNew(<<0, 4, 13>>, <<0, 0, -1>>),
              RayNew(<<1, 1, 13>>, <<0, 0, -1>>),
              RayNew(<<4, 0, 4>>, <<-1, 1, -1>>) }

InitConc ==
    /\ input \in ConcTriLists
    /\ triangles = <<>>
    /\ indices = <<>>
    /\ nodes = <<>>
    /\ pc = "input"
    /\ calls = <<>>
    /\ orig = <<>>
    /\ parent = <<>>
    /\ queries = [q \in Queries |-> IdleQuery]
    /\ walk = [q \in Queries |-> IdleWalk]
    /\ box = AABBNew
    /\ grown = {}
    /\ chosen = <<>>
    /\ args = <<>>
    /\ ret = <<>>
    /\ line_queue = <<>>
    /\ draw = IdleDraw

NextConc ==
    \/ Construct
    \/ Subdivide
    \/ \E q \in Queries, ray \in ConcRays : StartQuery(q, ray)
    \/ \E q \in Queries : QueryStep(q)

SpecConc == InitConc /\ [][NextConc]_vars

(***************************************************************************)
(* AABB on its own: a box made by AABB::new and grown point by point.      *)
(***************************************************************************)
InitAABB ==
    /\ input = <<>>
    /\ triangles = <<>>
    /\ indices = <<>>
    /\ nodes = <<>>
    /\ pc = "input"
    /\ calls = <<>>
    /\ orig = <<>>
    /\ parent = <<>>
    /\ queries = [q \in Queries |-> IdleQuery]
    /\ walk = [q \in Queries |-> IdleWalk]
    /\ box = AABBNew
    /\ grown = {}
    /\ chosen = <<>>
    /\ args = <<>>
    /\ ret = <<>>
    /\ line_queue = <<>>
    /\ draw = IdleDraw

Grow(p) ==
    /\ Cardinality(grown) < MaxGrow
    /\ box' = AABBGrow(box, p)
    /\ grown' = grown \cup {p}
    /\ UNCHANGED <<line_queue, draw, bvhVars, queries, walk, args, ret>>

NextAABB == \E p \in Points : Grow(p)

SpecAABB == InitAABB /\ [][NextAABB]_vars

(***************************************************************************)
(* Two scenes.  The single-triangle scene is the triangle (0,0,0),         *)
(* (1,0,0), (0,1,0) and the ray from (0.2,0.2,1) with direction (0,0,-1),  *)
(* with one fifth as the unit of length: coordinates and distances are     *)
(* five times their values.  The two-cluster scene is six triangles,       *)
(* three with x in 0..3 and three with x in 100..103, handed to construct  *)
(* in any order.                                                           *)
(***************************************************************************)
UnitTri == Tri(<<0, 0, 0>>, <<5, 0, 0>>, <<0, 5, 0>>)
UnitRay == RayNew(<<1, 1, 5>>, <<0, 0, -1>>)

\* a small triangle with its first vertex at (x, y, z)
ClusterTri(x, y, z) == Tri(<<x, y, z>>, <<x + 1, y, z>>, <<x, y + 1, z>>)

NearTris == << ClusterTri(0, 0, 0), ClusterTri(1, 0, 1), ClusterTri(2, 1, 2) >>
FarTris == << ClusterTri(100, 0, 0), ClusterTri(101, 0, 1), ClusterTri(102, 1, 2) >>

ClusterLists ==
    {[i \in 1..6 |-> (NearTris \o FarTris)[f[i]]] : f \in Permutations(1..6)}

SceneLists == {<< UnitTri >>} \cup ClusterLists

SceneRays == { UnitRay,
               RayNew(<<0, 1, 5>>, <<0, 0, -1>>),      \* down onto the near cluster
               RayNew(<<104, 1, 1>>, <<-1, 0, 0>>) }  \* along x through both clusters

InitScene ==
    /\ input \in SceneLists
    /\ triangles = <<>>
    /\ indices = <<>>
    /\ nodes = <<>>
    /\ pc = "input"
    /\ calls = <<>>
    /\ orig = <<>>
    /\ parent = <<>>
    /\ queries = [q \in Queries |-> IdleQuery]
    /\ walk = [q \in Queries |-> IdleWalk]
    /\ box = AABBNew
    /\ grown = {}
    /\ chosen = <<>>
    /\ args = <<>>
    /\ ret = <<>>
    /\ line_queue = <<>>
    /\ draw = IdleDraw

NextScene ==
    \/ Construct
    \/ Subdivide
    \/ \E ray \in SceneRays : StartQuery(1, ray)
    \/ QueryStep(1)

SpecScene == InitScene /\ [][NextScene]_vars

(***************************************************************************)
(* AABB::intersects on its own: a box with finite corners, min <= max on   *)
(* every axis, and a ray from a grid point in any of the 26 directions     *)
(* with components in {-1, 0, 1}.                                          *)
(***************************************************************************)
Box(lo, hi) == [min |-> <<Fin(lo[1]), Fin(lo[2]), Fin(lo[3])>>,
                max |-> <<Fin(hi[1]), Fin(hi[2]), Fin(hi[3])>>]

Boxes == { Box(<<0, 0, 0>>, <<2, 2, 2>>),     \* a cube
           Box(<<0, 0, 1>>, <<2, 1, 1>>),     \* flat: no extent on z
           Box(<<1, 1, 1>>, <<1, 1, 1>>) }    \* a single point

Directions == {d \in {-1, 0, 1} \X {-1, 0, 1} \X {-1, 0, 1} : d # <<0, 0, 0>>}

SlabRays == {RayNew(<<x, y, z>>, d) :
                x \in -1..MaxPos, y \in -1..MaxPos, z \in -1..MaxPos, d \in Directions}

InitSlab ==
    /\ input = <<>>
    /\ triangles = <<>>
    /\ indices = <<>>
    /\ nodes = <<>>
    /\ pc = "input"
    /\ calls = <<>>
    /\ orig = <<>>
    /\ parent = <<>>
    /\ queries = [q \in Queries |-> IdleQuery]
    /\ walk = [q \in Queries |-> IdleWalk]
    /\ box \in Boxes
    /\ grown = {}
    /\ chosen = <<>>
    /\ args \in {[ray |-> ray] : ray \in SlabRays}
    /\ ret = <<>>
    /\ line_queue = <<>>
    /\ draw = IdleDraw

\* box.intersects(&ray)
CallAABBIntersects ==
    /\ ret = <<>>
    /\ ret' = << AABBIntersects(box, args.ray) >>
    /\ UNCHANGED <<line_queue, draw, bvhVars, queries, walk, box, grown, args>>

NextSlab == CallAABBIntersects

SpecSlab == InitSlab /\ [][NextSlab]_vars

(***************************************************************************)
(* Sphere::intersects on its own: a sphere and a ray from a grid point in  *)
(* one of the six axis directions.                                         *)
(***************************************************************************)
Spheres == { SphereNew(<<0, 0, 0>>, 5), SphereNew(<<1, 0, -2>>, 2) }

UnitDirections == { <<1, 0, 0>>, <<-1, 0, 0>>, <<0, 1, 0>>, <<0, -1, 0>>,
                    <<0, 0, 1>>, <<0, 0, -1>> }

SphereRays == {RayNew(<<x, y, z>>, d) :
                  x \in (0 - MaxOrigin)..MaxOrigin, y \in (0 - MaxOrigin)..MaxOrigin,
                  z \in (0 - MaxOrigin)..MaxOrigin, d \in UnitDirections}

InitSphere ==
    /\ input = <<>>
    /\ triangles = <<>>
    /\ indices = <<>>
    /\ nodes = <<>>
    /\ pc = "input"
    /\ calls = <<>>
    /\ orig = <<>>
    /\ parent = <<>>
    /\ queries = [q \in Queries |-> IdleQuery]
    /\ walk = [q \in Queries |-> IdleWalk]
    /\ box = AABBNew
    /\ grown = {}
    /\ chosen = <<>>
    /\ args \in {[sphere |-> sphere, ray |-> ray] : sphere \in Spheres, ray \in SphereRays}
    /\ ret = <<>>
    /\ line_queue = <<>>
    /\ draw = IdleDraw

\* sphere.intersects(&ray)
CallSphereIntersects ==
    /\ ret = <<>>
    /\ ret' = << SphereIntersects(args.sphere, args.ray) >>
    /\ UNCHANGED <<line_queue, draw, bvhVars, queries, walk, box, grown, args>>

NextSphere == CallSphereIntersects

SpecSphere == InitSphere /\ [][NextSphere]_vars

(***************************************************************************)
(* partition on its own: a triangle list, an index array that is some      *)
(* permutation of 0..n-1, and a call partition(axis, pivot, start, count)  *)
(* on a range that lies within the index array.                            *)
(***************************************************************************)
PartLists == UNION {[1..n -> {TriA, TriC, TriD}] : n \in 0..MaxPartTris}

IndexArrays(n) == {[k \in 1..n |-> f[k] - 1] : f \in Permutations(1..n)}

Pivots == { Frac(1, 1), Frac(4, 3), Frac(6, 1) }

PartitionArgs(n) ==
    {[axis |-> axis, pivot |-> pivot, start |-> start, count |-> count] :
        axis \in 1..3, pivot \in Pivots,
        start \in 0..n, count \in 0..n}

InitPartition ==
    /\ input \in PartLists
    /\ triangles = input
    /\ indices \in IndexArrays(Len(input))
    /\ nodes = <<>>
    /\ pc = "input"
    /\ calls = <<>>
    /\ orig = <<>>
    /\ parent = <<>>
    /\ queries = [q \in Queries |-> IdleQuery]
    /\ walk = [q \in Queries |-> IdleWalk]
    /\ box = AABBNew
    /\ grown = {}
    /\ chosen = <<>>
    /\ args \in {a \in PartitionArgs(Len(input)) : a.start + a.count <= Len(input)}
    /\ ret = <<>>
    /\ line_queue = <<>>
    /\ draw = IdleDraw

\* self.partition(axis, pivot, start, count); ret is the split index it
\* returns, with the index array of before the call
CallPartition ==
    /\ ret = <<>>
    /\ LET r == Partition(indices, triangles, args.axis, args.pivot, args.start, args.count)
       IN  /\ indices' = r.indices
           /\ ret' = << r.split, indices >>
    /\ UNCHANGED <<line_queue, draw, triangles, nodes, pc, calls, input, orig, parent, chosen,
                   queries, walk, box, grown, args>>

NextPartition == CallPartition

SpecPartition == InitPartition /\ [][NextPartition]_vars

(***************************************************************************)
(* subdivide on a node reached at recursion depth rec_depth: the part of   *)
(* a construction below one node.  A call subdivide(node_index, rec_depth) *)
(* reads the node, its range of the index array and nodes.len() only, so   *)
(* the node is kept as node 0 and the nodes above it are left out;         *)
(* args.rec_depth keeps the depth of the first call.  Depth 0 is the call  *)
(* made by construct.  Under the fair specification the thread that runs   *)
(* construct keeps running.                                                *)
(***************************************************************************)
StartDepths == {0, DepthCap - 1, DepthCap, DepthCap + 1}

InitDeep ==
    /\ input \in TriLists
    /\ triangles = input
    /\ indices = IdentityIndices(Len(input))
    /\ nodes = << RootNode(Len(input)) >>
    /\ pc = "subdivide"
    /\ \E d \in StartDepths : /\ calls = << <<0, d>> >>
                              /\ args = [rec_depth |-> d]
    /\ orig = << [first |-> 0, count |-> Len(input)] >>
    /\ parent = << -1 >>
    /\ queries = [q \in Queries |-> IdleQuery]
    /\ walk = [q \in Queries |-> IdleWalk]
    /\ box = AABBNew
    /\ grown = {}
    /\ chosen = << NoSplit >>
    /\ ret = <<>>
    /\ line_queue = <<>>
    /\ draw = IdleDraw

NextDeep == Subdivide

\* Weak fairness of Subdivide, WF_vars(Subdivide), with ENABLED written out:
\* Subdivide is enabled exactly when pc = "subdivide" (calls is then
\* non-empty), and every step it takes changes calls.
SubdivideFair == []<>(pc # "subdivide") \/ []<><<pc = "subdivide">>_vars

SpecDeep == InitDeep /\ [][NextDeep]_vars /\ SubdivideFair

(***************************************************************************)
(* Queries of the part of a BVH below a node at recursion depth            *)
(* args.rec_depth: the call of intersects_sub on node 0 is then at         *)
(* recursion depth args.rec_depth + 1, and walk counts depths from it.     *)
(* The thread that runs a query keeps running.                             *)
(***************************************************************************)
InitDeepQuery ==
    /\ input \in ConcTriLists
    /\ triangles = input
    /\ indices = IdentityIndices(Len(input))
    /\ nodes = << RootNode(Len(input)) >>
    /\ pc = "subdivide"
    /\ \E d \in StartDepths : /\ calls = << <<0, d>> >>
                              /\ args = [rec_depth |-> d]
    /\ orig = << [first |-> 0, count |-> Len(input)] >>
    /\ parent = << -1 >>
    /\ queries = [q \in Queries |-> IdleQuery]
    /\ walk = [q \in Queries |-> IdleWalk]
    /\ box = AABBNew
    /\ grown = {}
    /\ chosen = << NoSplit >>
    /\ ret = <<>>
    /\ line_queue = <<>>
    /\ draw = IdleDraw

NextDeepQuery ==
    \/ Subdivide
    \/ \E ray \in ConcRays : StartQuery(1, ray)
    \/ QueryStep(1)

\* Weak fairness of QueryStep(1), with ENABLED written out: it is enabled
\* exactly while query 1 is running, no other action is, and every step it
\* takes changes queries.
QueryFair ==
    []<>(queries[1].status # "running") \/ []<><<queries[1].status = "running">>_vars

SpecDeepQuery == InitDeepQuery /\ [][NextDeepQuery]_vars /\ SubdivideFair /\ QueryFair

(***************************************************************************)
(* Triangle::intersects on its own: a triangle with its vertices among     *)
(* four points, zero-area triangles included, and a ray from a grid point  *)
(* in any of the 26 directions.                                            *)
(***************************************************************************)
Corners == { <<0, 0, 0>>, <<2, 0, 0>>, <<0, 2, 0>>, <<0, 0, 2>> }

AnyTriangles == {Tri(a, b, c) : a \in Corners, b \in Corners, c \in Corners}

TriangleRays == {RayNew(<<x, y, z>>, d) :
                    x \in -1..MaxTriPos, y \in -1..MaxTriPos, z \in -1..MaxTriPos,
                    d \in Directions}

InitTriangle ==
    /\ input = <<>>
    /\ triangles = <<>>
    /\ indices = <<>>
    /\ nodes = <<>>
    /\ pc = "input"
    /\ calls = <<>>
    /\ orig = <<>>
    /\ parent = <<>>
    /\ queries = [q \in Queries |-> IdleQuery]
    /\ walk = [q \in Queries |-> IdleWalk]
    /\ box = AABBNew
    /\ grown = {}
    /\ chosen = <<>>
    /\ args \in {[triangle |-> tri, ray |-> ray] : tri \in AnyTriangles, ray \in TriangleRays}
    /\ ret = <<>>
    /\ line_queue = <<>>
    /\ draw = IdleDraw

\* triangle.intersects(&ray)
CallTriangleIntersects ==
    /\ ret = <<>>
    /\ ret' = << TriangleIntersects(args.triangle, args.ray) >>
    /\ UNCHANGED <<line_queue, draw, bvhVars, queries, walk, box, grown, args>>

NextTriangle == CallTriangleIntersects

SpecTriangle == InitTriangle /\ [][NextTriangle]_vars

(***************************************************************************)
(* The debug tree walk of the renderer on a constructed Bvh.  line_queue   *)
(* holds, for every draw_aabb call, the index of the node whose bounds     *)
(* were drawn.                                                             *)
(***************************************************************************)
\* renderer.draw_bvh(bvh, color)
DrawBvh ==
    /\ pc = "built"
    /\ draw.pc = "idle"
    /\ draw' = [pc |-> "running", calls |-> << <<0, 0>> >>]
    /\ UNCHANGED <<bvhVars, queries, walk, box, grown, args, ret, line_queue>>

\* the draw_bvh_sub calls a call of draw_bvh_sub on node makes
DrawBvhSubCalls(node, rec_depth) ==
    IF node.count = 0
    THEN << <<node.left_first, rec_depth + 1>>, <<node.left_first + 1, rec_depth + 1>> >>
    ELSE <<>>

\* the next call of draw_bvh_sub: the thread dies when the stack has no room
\* for the call, and the program panics on an index outside bvh.nodes
DrawBvhSub ==
    /\ draw.pc = "running"
    /\ LET call == Head(draw.calls)
       IN  IF call[2] >= MaxStack
           THEN /\ draw' = [draw EXCEPT !.pc = "overflow"]
                /\ UNCHANGED line_queue
           ELSE IF ~InRange(nodes, call[1])
           THEN /\ draw' = [draw EXCEPT !.pc = "panic"]
                /\ UNCHANGED line_queue
           ELSE LET rest == DrawBvhSubCalls(At(nodes, call[1]), call[2]) \o Tail(draw.calls)
                IN  /\ line_queue' = Append(line_queue, call[1])
                    /\ draw' = [pc |-> IF rest = <<>> THEN "returned" ELSE "running",
                                calls |-> rest]
    /\ UNCHANGED <<bvhVars, queries, walk, box, grown, args, ret>>

NextDraw ==
    \/ Construct
    \/ Subdivide
    \/ DrawBvh
    \/ DrawBvhSub

SpecDraw == Init /\ [][NextDraw]_vars

(***************************************************************************)
(* One pixel of end_frame_raytrace_cpu: the meshes and spheres queued for  *)
(* the frame and the ray of the pixel.  The rays run along the line        *)
(* x = 0, y = 4 through vertex v2 of TriA, TriB and TriC, or beside it.    *)
(***************************************************************************)
PixelMeshes == { NoBvh, SomeBvh(<<TriA>>), SomeBvh(<<TriB, TriC>>),
                 SomeBvh(<<TriA, TriA, TriA, TriC>>) }

PixelSpheres == { SphereNew(<<0, 4, 0>>, 2), SphereNew(<<0, 4, 8>>, 1),
                  SphereNew(<<0, 4, 7>>, 2), SphereNew(<<1, 4, 0>>, 2) }

PixelRays == { RayNew(<<0, 4, 13>>, <<0, 0, -1>>), RayNew(<<0, 4, 5>>, <<0, 0, -1>>),
               RayNew(<<0, 4, 5>>, <<0, 0, 1>>), RayNew(<<1, 1, 5>>, <<0, 0, -1>>) }

InitPixel ==
    /\ input = <<>>
    /\ triangles = <<>>
    /\ indices = <<>>
    /\ nodes = <<>>
    /\ pc = "input"
    /\ calls = <<>>
    /\ orig = <<>>
    /\ parent = <<>>
    /\ queries = [q \in Queries |-> IdleQuery]
    /\ walk = [q \in Queries |-> IdleWalk]
    /\ box = AABBNew
    /\ grown = {}
    /\ chosen = <<>>
    /\ args \in {[mesh_queue |-> mq, sphere_queue |-> sq, ray |-> ray] :
                    mq \in UNION {[1..n -> PixelMeshes] : n \in 0..MaxMeshes},
                    sq \in UNION {[1..n -> PixelSpheres] : n \in 0..MaxSpheres},
                    ray \in PixelRays}
    /\ ret = <<>>
    /\ line_queue = <<>>
    /\ draw = IdleDraw

\* the body of the loop over the pixels, for one pixel: the hit_info the pixel
\* is shaded with, m being the outcome of the loop over the mesh queue
ShadePixel ==
    /\ ret = <<>>
    /\ \E m \in {MeshLoop(args.mesh_queue, args.ray, NewHitInfoExt)} :
          ret' = << IF m.panic THEN m
                    ELSE [panic |-> FALSE,
                          hit |-> SphereLoop(args.sphere_queue, args.ray, m.hit)] >>
    /\ UNCHANGED <<line_queue, draw, bvhVars, queries, walk, box, grown, args>>

NextPixel == ShadePixel

SpecPixel == InitPixel /\ [][NextPixel]_vars

(***************************************************************************)
(* Definitions the properties are stated with.                             *)
(***************************************************************************)
NodeIds == 0..(Len(nodes) - 1)
IsLeaf(k) == At(nodes, k).count >= 0
IsInternal(k) == At(nodes, k).count = -1
Children(k) == {c \in NodeIds : At(parent, c) = k}
Done(q) == queries[q].status = "done"

\* the index range of a node: the stored one for a leaf, for an internal node
\* the one it held before it was split
RangeFirst(k) == IF IsLeaf(k) THEN At(nodes, k).left_first ELSE At(orig, k).first
RangeCount(k) == IF IsLeaf(k) THEN At(nodes, k).count ELSE At(orig, k).count

\* two results report the same hit distance, or both report no hit
SameHit(a, b) ==
    \/ a.kind = "none" /\ b.kind = "none"
    \/ a.kind = "some" /\ b.kind = "some" /\ FracEq(a, b)

\* the brute-force scan: Triangle::intersects on every triangle, keeping the minimum
BruteForce(tris, ray) ==
    LET hits == {k \in 1..Len(tris) : TriangleIntersects(tris[k], ray).hit}
        dist(k) == TriangleIntersects(tris[k], ray)
    IN  IF hits = {} THEN NoneResult
        ELSE LET best == CHOOSE k \in hits : \A j \in hits : ~FracGt(dist(k), dist(j))
             IN  [kind |-> "some", num |-> dist(best).num, den |-> dist(best).den,
                  triangle_index |-> best - 1]

Min3(a, b, c) == IF a <= b /\ a <= c THEN a ELSE IF b <= c THEN b ELSE c
Max3(a, b, c) == IF a >= b /\ a >= c THEN a ELSE IF b >= c THEN b ELSE c
MaxOf(S) == CHOOSE x \in S : \A y \in S : y <= x
MinOf(S) == CHOOSE x \in S : \A y \in S : x <= y

\* point p lies in the box
Contains(bx, p) ==
    \A c \in 1..3 : FGe(Fin(p[c]), bx.min[c]) /\ FGe(bx.max[c], Fin(p[c]))

\* The half-line position + t * direction, t >= 0, has no point in the
\* bounding box of the triangle.  Directions have components in {-1, 0, 1},
\* so (x - position) / direction is (x - position) * direction.
RayMissesRegion(tri, ray) ==
    LET lo(c) == Min3(tri.v0[c], tri.v1[c], tri.v2[c])
        hi(c) == Max3(tri.v0[c], tri.v1[c], tri.v2[c])
        o == ray.position
        d == ray.direction
        moving == {c \in 1..3 : d[c] # 0}
        still == {c \in 1..3 : d[c] = 0}
        enter == MaxOf({0} \cup {Min3((lo(c) - o[c]) * d[c], (hi(c) - o[c]) * d[c],
                                       (hi(c) - o[c]) * d[c]) : c \in moving})
        leave(c) == Max3((lo(c) - o[c]) * d[c], (hi(c) - o[c]) * d[c],
                         (hi(c) - o[c]) * d[c])
    IN  \/ \E c \in still : o[c] < lo(c) \/ o[c] > hi(c)
        \/ \E c \in moving : leave(c) < enter

(***************************************************************************)
(* C1  Closest-hit correctness: a finished query of the constructed BVH    *)
(* reports the distance a brute-force scan of all triangles reports, and   *)
(* no hit exactly when the scan finds none.                                *)
(***************************************************************************)
C1_ClosestHitIsBruteForce ==
    Done(1) => SameHit(queries[1].result, BruteForce(triangles, queries[1].ray))

(***************************************************************************)
(* C2  Containment: after construct, every vertex of every triangle in a   *)
(* node's index range lies inside the node's bounds.                       *)
(***************************************************************************)
C2_Containment ==
    pc = "built" =>
        \A k \in NodeIds :
            \A i \in At(orig, k).first .. (At(orig, k).first + At(orig, k).count - 1) :
                LET triangle == At(triangles, At(indices, i))
                IN  /\ Contains(At(nodes, k).bounds, triangle.v0)
                    /\ Contains(At(nodes, k).bounds, triangle.v1)
                    /\ Contains(At(nodes, k).bounds, triangle.v2)

(***************************************************************************)
(* C3  grow takes the component-wise minimum of the previous min and the   *)
(* point, and the maximum of the previous max and the point: a box grown   *)
(* from AABB::new() is the tight box of, and so contains, the points       *)
(* passed to grow.                                                         *)
(***************************************************************************)
C3_GrowWidens ==
    grown # {} =>
        /\ \A c \in 1..3 :
              /\ box.min[c] = Fin(MinOf({p[c] : p \in grown}))
              /\ box.max[c] = Fin(MaxOf({p[c] : p \in grown}))
        /\ \A p \in grown : Contains(box, p)

(***************************************************************************)
(* C4  No out-of-range reference: in a constructed BVH every leaf's range  *)
(* lies within the index array, every index names a triangle, the          *)
(* children of an internal node are nodes; no query fails on an            *)
(* out-of-bounds access.                                                   *)
(***************************************************************************)
C4_NoOutOfRange ==
    pc = "built" =>
        /\ \A k \in NodeIds :
              /\ IsLeaf(k) => /\ 0 <= At(nodes, k).left_first
                              /\ At(nodes, k).left_first + At(nodes, k).count <= Len(indices)
              /\ IsInternal(k) => /\ At(nodes, k).left_first \in NodeIds
                                  /\ At(nodes, k).left_first + 1 \in NodeIds
        /\ \A i \in 1..Len(indices) : InRange(triangles, indices[i])
        /\ Done(1) => queries[1].result.kind # "panic"

(***************************************************************************)
(* C5  Partition invariant: the index ranges of the two children of an     *)
(* internal node are adjacent and disjoint, and together they are the      *)
(* range the node held before it was split.                                *)
(***************************************************************************)
C5_ChildrenPartitionRange ==
    pc = "built" =>
        \A k \in NodeIds : IsInternal(k) =>
            LET l == At(nodes, k).left_first
                r == At(nodes, k).left_first + 1
            IN  /\ RangeFirst(l) = At(orig, k).first
                /\ RangeFirst(r) = RangeFirst(l) + RangeCount(l)
                /\ RangeCount(l) + RangeCount(r) = At(orig, k).count
                /\ RangeCount(l) >= 0 /\ RangeCount(r) >= 0

C7_TrianglesKeptIndicesPermuted ==
    pc # "input" =>
        /\ triangles = input
        /\ Len(indices) = Len(input)
        /\ {indices[i] : i \in 1..Len(indices)} = 0..(Len(input) - 1)

\* construct has finished and partition has moved entries of the index array
C7_IndicesShuffled ==
    /\ pc = "built"
    /\ indices # IdentityIndices(Len(input))

\* a finished query has the result it gives when run on its own
C8_Isolated ==
    \A q \in Queries :
        Done(q) => queries[q].result
                     = BvhIntersects(nodes, indices, triangles, queries[q].ray)

(***************************************************************************)
(* C8  Queries change neither nodes, indices nor triangles (whatever       *)
(* queries have run, the BVH is the one construct built), and however the  *)
(* calls of concurrent queries interleave, each query ends with the        *)
(* result it gives when run on its own.                                    *)
(***************************************************************************)
C8_ConcurrentQueriesReadOnly ==
    /\ C8_Isolated
    /\ pc = "built" =>
          [nodes |-> nodes, indices |-> indices, triangles |-> triangles]
              = BvhConstruct(input)

\* two queries with different rays are both part-way through the tree, one
\* of them with a hit in its accumulator
C8_TwoInFlight ==
    \E q1, q2 \in Queries :
        /\ q1 # q2
        /\ queries[q1].status = "running" /\ queries[q2].status = "running"
        /\ queries[q1].ray # queries[q2].ray
        /\ ~queries[q1].hit.inf
        /\ queries[q2].pending # <<0>>

(***************************************************************************)
(* C9  No-hit correctness: a query whose ray misses the bounding region    *)
(* of every triangle returns None.                                         *)
(***************************************************************************)
C9_MissReturnsNone ==
    (Done(1) /\ \A k \in 1..Len(triangles) : RayMissesRegion(triangles[k], queries[1].ray))
        => queries[1].result.kind = "none"

\* a query on a split tree has finished with a ray that misses every triangle
C9_MissedAll ==
    /\ Done(1)
    /\ Len(nodes) >= 3
    /\ \A k \in 1..Len(triangles) : RayMissesRegion(triangles[k], queries[1].ray)
    /\ queries[1].result.kind = "none"

\* the triangle lists that hold the same triangles in another order
Reorderings(tris) ==
    {[i \in 1..Len(tris) |-> tris[f[i]]] : f \in Permutations(1..Len(tris))}

(***************************************************************************)
(* C10  Repeatable construction: a BVH built from the same triangles in    *)
(* any order answers a ray with the same hit distance, or with None, as    *)
(* the BVH built first.                                                    *)
(***************************************************************************)
C10_OrderIndependent ==
    Done(1) =>
        \A tris \in Reorderings(input) :
            LET b == BvhConstruct(tris)
            IN  SameHit(BvhIntersects(b.nodes, b.indices, b.triangles, queries[1].ray),
                        queries[1].result)

(***************************************************************************)
(* C11  Single-triangle scenario: on the BVH constructed from the one      *)
(* triangle (0,0,0), (1,0,0), (0,1,0), the ray from (0.2,0.2,1) with       *)
(* direction (0,0,-1) reports a hit at distance 1 (5 fifths) whose         *)
(* barycentric coordinates u and v are each >= 0 and sum to <= 1.          *)
(***************************************************************************)
C11_SingleTriangleHit ==
    (Done(1) /\ input = << UnitTri >> /\ queries[1].ray = UnitRay) =>
        /\ queries[1].result.kind = "some"
        /\ queries[1].result.num = 5 * queries[1].result.den
        /\ queries[1].hit.un >= 0
        /\ queries[1].hit.vn >= 0
        /\ queries[1].hit.un + queries[1].hit.vn <= queries[1].hit.den

\* the triangles the index range node k was created with refers to
Held(k) ==
    {At(triangles, At(indices, i)) :
        i \in At(orig, k).first .. (At(orig, k).first + At(orig, k).count - 1)}

(***************************************************************************)
(* C12  Two-cluster scenario: for 6 triangles, 3 near x = 0 and 3 near     *)
(* x = 100, the root of the constructed tree is an internal node split on  *)
(* the X axis; its left child's range holds exactly the 3 near triangles   *)
(* and its right child's range exactly the 3 far ones.                     *)
(***************************************************************************)
C12_TwoClusterSplit ==
    (pc = "built" /\ input \in ClusterLists) =>
        /\ IsInternal(0)
        /\ At(chosen, 0).axis = 1
        /\ Held(At(nodes, 0).left_first) = {NearTris[i] : i \in 1..3}
        /\ Held(At(nodes, 0).left_first + 1) = {FarTris[i] : i \in 1..3}

\* The interval of t on which position + t * direction lies between the two
\* planes of axis c of the box, for an axis the ray moves on.  Directions
\* have components in {-1, 0, 1}, so (plane - position) / direction is
\* (plane - position) * direction.
SlabEnter(bx, r, c) ==
    LET t1 == (bx.min[c][2] - r.position[c]) * r.direction[c]
        t2 == (bx.max[c][2] - r.position[c]) * r.direction[c]
    IN  IF t1 <= t2 THEN t1 ELSE t2
SlabLeave(bx, r, c) ==
    LET t1 == (bx.min[c][2] - r.position[c]) * r.direction[c]
        t2 == (bx.max[c][2] - r.position[c]) * r.direction[c]
    IN  IF t1 <= t2 THEN t2 ELSE t1

Moving(r) == {c \in 1..3 : r.direction[c] # 0}
\* on an axis the ray does not move on it is between the planes for every t
\* or for none
BetweenPlanes(bx, r, c) ==
    bx.min[c][2] <= r.position[c] /\ r.position[c] <= bx.max[c][2]

\* tmin and tmax of the intersection of the three slab intervals, when no
\* interval is empty
Tmin(bx, r) == MaxOf({SlabEnter(bx, r, c) : c \in Moving(r)})
Tmax(bx, r) == MinOf({SlabLeave(bx, r, c) : c \in Moving(r)})

\* the intersection of the three slab intervals is non-empty and not
\* entirely behind the origin
SlabsMeet(bx, r) ==
    /\ \A c \in (1..3) \ Moving(r) : BetweenPlanes(bx, r, c)
    /\ Tmax(bx, r) >= Tmin(bx, r)
    /\ Tmax(bx, r) >= 0

(***************************************************************************)
(* C13  AABB::intersects(ray) returns true exactly when the intersection   *)
(* [tmin, tmax] of the three per-axis slab intervals is non-empty          *)
(* (tmax >= tmin) and not entirely behind the origin (tmax >= 0); a ray    *)
(* that only touches the box (tmax = tmin) is a hit.                       *)
(***************************************************************************)
C13_SlabTest ==
    ret # <<>> => (ret[1] <=> SlabsMeet(box, args.ray))

\* Sphere::intersects has returned for the sphere of radius 5 centred at the
\* origin and a ray with direction (0,0,1) whose origin is strictly inside it
InsideRadius5 ==
    /\ ret # <<>>
    /\ args.sphere = SphereNew(<<0, 0, 0>>, 5)
    /\ args.ray.direction = <<0, 0, 1>>
    /\ Dot(args.ray.position, args.ray.position) < 25

(***************************************************************************)
(* C14  Sphere self-intersection scenario: for the sphere of radius 5      *)
(* centred at the origin and a ray from (x, y, z) strictly inside it with  *)
(* direction (0,0,1), Sphere::intersects returns the far root              *)
(* -b + sqrt(d), where b = z and d = 25 - x*x - y*y; it is positive,       *)
(* never negative.                                                         *)
(***************************************************************************)
C14_InsideSphereFarRoot ==
    InsideRadius5 =>
        /\ ret[1].some
        /\ ret[1].distance =
              Surd(0 - args.ray.position[3], 1,
                   25 - args.ray.position[1] * args.ray.position[1]
                      - args.ray.position[2] * args.ray.position[2])
        /\ SurdSign(ret[1].distance) = 1

\* the call has returned for an origin inside the sphere, off its axis and
\* past the centre, so that b > 0 and both roots differ from +5 and -5
C14_InsideOffCentre ==
    /\ InsideRadius5
    /\ args.ray.position[1] # 0
    /\ args.ray.position[3] > 0
    /\ ret[1].some

(***************************************************************************)
(* C15  Bvh::construct on an empty triangle list yields exactly one node,  *)
(* the root, a leaf with left_first 0, count 0 and bounds at the empty     *)
(* sentinel (min = +inf, max = -inf); Bvh::intersects on it returns None   *)
(* for every ray.                                                          *)
(***************************************************************************)
C15_EmptyList ==
    (input = <<>> /\ pc = "built") =>
        /\ Len(nodes) = 1
        /\ IsLeaf(0)
        /\ At(nodes, 0).left_first = 0
        /\ At(nodes, 0).count = 0
        /\ At(nodes, 0).bounds = [min |-> <<PInf, PInf, PInf>>, max |-> <<NInf, NInf, NInf>>]
        /\ triangles = <<>> /\ indices = <<>>
        /\ Done(1) => queries[1].result.kind = "none"

\* a query of the BVH of the empty list has finished, its ray having passed
\* the slab test of the root's sentinel box
C15_EmptyQueried ==
    /\ input = <<>>
    /\ pc = "built"
    /\ Done(1)
    /\ AABBIntersects(At(nodes, 0).bounds, queries[1].ray)

\* subdivide went on to partition node k, and every triangle of the range
\* the node had on entry is on one side of the split position
OneSided(k) ==
    /\ At(chosen, k) # NoSplit
    /\ \/ \A tri \in Held(k) : ~FracGt(Center(tri, At(chosen, k).axis), At(chosen, k).pos)
       \/ \A tri \in Held(k) : FracGt(Center(tri, At(chosen, k).axis), At(chosen, k).pos)

(***************************************************************************)
(* C16  Degenerate split guard: when partition puts every triangle of the  *)
(* node on one side, subdivide appends no child nodes and leaves the node  *)
(* a leaf over its original range: the left_first and the count it had on  *)
(* entry.                                                                  *)
(***************************************************************************)
C16_AbortKeepsRange ==
    \A k \in NodeIds : OneSided(k) =>
        /\ Children(k) = {}
        /\ IsLeaf(k)
        /\ At(nodes, k).count = At(orig, k).count
        /\ At(nodes, k).left_first = At(orig, k).first

\* the leaves whose index range holds position i of the index array
LeavesOver(i) ==
    {k \in NodeIds : /\ IsLeaf(k)
                     /\ At(nodes, k).left_first <= i
                     /\ i < At(nodes, k).left_first + At(nodes, k).count}

(***************************************************************************)
(* C17  In a BVH constructed from n > 0 triangles the index ranges of the  *)
(* leaves are pairwise disjoint and together cover [0, n): every position  *)
(* of the index array is in the range of exactly one leaf, no leaf range   *)
(* reaches outside [0, n), and every triangle is referenced by exactly one *)
(* leaf.                                                                   *)
(***************************************************************************)
C17_LeavesCoverOnce ==
    (pc = "built" /\ Len(input) > 0) =>
        /\ \A i \in 0..(Len(input) - 1) : Cardinality(LeavesOver(i)) = 1
        /\ \A k \in NodeIds : IsLeaf(k) =>
              /\ 0 <= At(nodes, k).left_first
              /\ At(nodes, k).left_first + At(nodes, k).count <= Len(input)
        /\ \A t \in 0..(Len(input) - 1) :
              Cardinality({i \in 0..(Len(input) - 1) :
                              At(indices, i) = t /\ LeavesOver(i) # {}}) = 1

\* the centroid of a triangle on an axis: a third of the sum of its vertices
Centroid(tri, axis) == Frac(tri.v0[axis] + tri.v1[axis] + tri.v2[axis], 3)

\* how often t occurs in positions first .. first + count - 1 of idx
Occurrences(idx, first, count, t) ==
    Cardinality({i \in first..(first + count - 1) : At(idx, i) = t})

(***************************************************************************)
(* C18  Partition postcondition: partition(axis, pivot, start, count)      *)
(* returns s with start <= s <= start + count; every entry of the index    *)
(* array in [start, s) refers to a triangle whose centroid coordinate on   *)
(* the axis is <= pivot and every entry in [s, start + count) to one whose *)
(* centroid coordinate is > pivot; the multiset of entries in              *)
(* [start, start + count) is unchanged and the entries outside it are      *)
(* untouched.                                                              *)
(***************************************************************************)
C18_PartitionPost ==
    ret # <<>> =>
        LET s == ret[1]
            before == ret[2]
            first == args.start
            end == args.start + args.count
        IN  /\ first <= s /\ s <= end
            /\ Len(indices) = Len(before)
            /\ \A i \in first..(s - 1) :
                  ~FracGt(Centroid(At(triangles, At(indices, i)), args.axis), args.pivot)
            /\ \A i \in s..(end - 1) :
                  FracGt(Centroid(At(triangles, At(indices, i)), args.axis), args.pivot)
            /\ \A t \in 0..(Len(triangles) - 1) :
                  Occurrences(indices, first, args.count, t)
                      = Occurrences(before, first, args.count, t)
            /\ \A i \in 0..(Len(indices) - 1) :
                  (i < first \/ i >= end) => At(indices, i) = At(before, i)

\* partition has returned a split strictly inside a range that is not the
\* whole index array, having moved entries
C18_SplitInside ==
    /\ ret # <<>>
    /\ args.start < ret[1]
    /\ ret[1] < args.start + args.count
    /\ args.count < Len(indices)
    /\ indices # ret[2]

\* coordinate c of the vertices of the triangles in the range node k was
\* created with
VertexCoords(k, c) ==
    UNION {{tri.v0[c], tri.v1[c], tri.v2[c]} : tri \in Held(k)}

\* the extent on axis c of the box of those vertices
Extent(k, c) == MaxOf(VertexCoords(k, c)) - MinOf(VertexCoords(k, c))

\* the sum of coordinate c of the vertices of the triangles at positions
\* i .. last of the index array
RECURSIVE VertexSum(_, _, _)
VertexSum(i, last, c) ==
    IF i > last THEN 0
    ELSE At(triangles, At(indices, i)).v0[c] + At(triangles, At(indices, i)).v1[c]
         + At(triangles, At(indices, i)).v2[c] + VertexSum(i + 1, last, c)

\* the average on axis c of all vertex positions in the range of node k
VertexAverage(k, c) ==
    Frac(VertexSum(At(orig, k).first, At(orig, k).first + At(orig, k).count - 1, c),
         3 * At(orig, k).count)

\* the split position of every node subdivide went on to partition is the
\* average on the axis that was chosen
PositionIsAverage ==
    \A k \in NodeIds : At(chosen, k) # NoSplit =>
        FracEq(At(chosen, k).pos, VertexAverage(k, At(chosen, k).axis))

(***************************************************************************)
(* C19  Split selection: when subdivide splits a node, the split axis is   *)
(* an axis on which the box of all vertices in the node's range has its    *)
(* largest extent, and the split position is the coordinate on that axis   *)
(* of the average of all vertex positions in the range.                    *)
(***************************************************************************)
C19_SplitSelection ==
    /\ \A k \in NodeIds : At(chosen, k) # NoSplit =>
          \A c \in 1..3 : Extent(k, At(chosen, k).axis) >= Extent(k, c)
    /\ PositionIsAverage

(***************************************************************************)
(* C20  A node whose range holds 2 or fewer triangles is never split:      *)
(* the range every internal node was created with held at least 3          *)
(* triangles, both children of every internal node were created with       *)
(* count >= 1, and every leaf of a BVH built from a non-empty list has     *)
(* count > 0.                                                              *)
(***************************************************************************)
C20_SmallNodesStayLeaves ==
    pc # "input" =>
        \A k \in NodeIds :
            /\ At(orig, k).count <= 2 => (IsLeaf(k) /\ Children(k) = {})
            /\ IsInternal(k) =>
                  /\ At(orig, k).count >= 3
                  /\ Cardinality(Children(k)) = 2
                  /\ \A c \in Children(k) : At(orig, c).count >= 1
            /\ (Len(input) > 0 /\ IsLeaf(k)) => At(nodes, k).count > 0

\* a built tree in which a node of 3 triangles was split into children of 1
\* and 2, neither of which was split further
C20_SplitDownToSmall ==
    /\ pc = "built"
    /\ \E k \in NodeIds :
          /\ IsInternal(k)
          /\ At(orig, k).count = 3
          /\ \E c1, c2 \in Children(k) :
                /\ At(orig, c1).count = 1 /\ IsLeaf(c1)
                /\ At(orig, c2).count = 2 /\ IsLeaf(c2)

\* the recursion depth at which subdivide is called on node k
RECURSIVE Depth(_)
Depth(k) == IF At(parent, k) = -1 THEN args.rec_depth ELSE 1 + Depth(At(parent, k))

\* no node lies deeper than 31, and a node at depth > 30 is a leaf with the
\* count it was created with
DepthCapped ==
    \A k \in NodeIds :
        /\ Depth(k) <= 31
        /\ Depth(k) > 30 => (IsLeaf(k) /\ At(nodes, k).count = At(orig, k).count
                             /\ Children(k) = {})

(***************************************************************************)
(* C21  Bvh::construct terminates for every finite triangle list, lists    *)
(* whose centroids all coincide included, and no node of the tree lies at  *)
(* depth greater than 31: a node reached at recursion depth > 30 is kept   *)
(* as a leaf whatever its count.                                           *)
(***************************************************************************)
C21_TerminatesDepthCapped == <>(pc = "built") /\ []DepthCapped

\* construction has ended with a leaf of more than 2 triangles at depth 31,
\* below a node that was split at depth 30
C21_OversizedLeafAtCap ==
    /\ pc = "built"
    /\ \E k \in NodeIds : /\ Depth(k) = 31
                          /\ At(parent, k) # -1
                          /\ IsLeaf(k)
                          /\ At(nodes, k).count > LeafCount

\* the nodes query q has called intersects_sub on so far, in order
VisitedNodes(q) == [k \in 1..Len(walk[q].visited) |-> walk[q].visited[k].node]

\* no node was visited twice, and no call was deeper than 32
BoundedWalk ==
    /\ \A i, j \in 1..Len(walk[1].visited) :
          i # j => walk[1].visited[i].node # walk[1].visited[j].node
    /\ \A i \in 1..Len(walk[1].visited) :
          args.rec_depth + walk[1].visited[i].depth <= 32

(***************************************************************************)
(* C22  Every call of Bvh::intersects on a constructed BVH terminates      *)
(* (it returns, or it ends in the panic of an out-of-bounds access),       *)
(* visits each node at most once and reaches recursion depth at most 32.   *)
(***************************************************************************)
C22_QueryTerminates ==
    /\ (queries[1].status = "running") ~> Done(1)
    /\ []BoundedWalk

\* a query has returned after a call at recursion depth 32
C22_WalkedToDepth32 ==
    /\ Done(1)
    /\ queries[1].result.kind # "panic"
    /\ \E i \in 1..Len(walk[1].visited) : args.rec_depth + walk[1].visited[i].depth = 32

\* the ray of query 1 passes AABB::intersects of the box of node k
BoxHit(k) == AABBIntersects(At(nodes, k).bounds, queries[1].ray)

\* the nodes below and including k that are to be visited, in order: k, and
\* if k is an internal node whose box is hit, those of its first child and
\* then those of its second child
RECURSIVE Preorder(_)
Preorder(k) ==
    IF IsInternal(k) /\ BoxHit(k)
    THEN <<k>> \o Preorder(At(nodes, k).left_first) \o Preorder(At(nodes, k).left_first + 1)
    ELSE <<k>>

\* the indices of the triangles in the range node k was created with
HeldIndices(k) ==
    {At(indices, i) : i \in At(orig, k).first .. (At(orig, k).first + At(orig, k).count - 1)}

(***************************************************************************)
(* C23  Traversal visits exactly the nodes all of whose ancestors' boxes   *)
(* are intersected by the ray: a node whose box fails AABB::intersects has *)
(* none of its triangles tested and none of its descendants visited, and   *)
(* both children of an internal node whose box is hit are visited, first   *)
(* left_first, then left_first + 1.                                        *)
(***************************************************************************)
C23_VisitsUnprunedInOrder ==
    Done(1) =>
        /\ VisitedNodes(1) = Preorder(0)
        /\ \A j \in 1..Len(walk[1].tested) :
              \E i \in 1..Len(walk[1].visited) :
                  LET k == walk[1].visited[i].node
                  IN  IsLeaf(k) /\ BoxHit(k) /\ walk[1].tested[j] \in HeldIndices(k)

\* distance a is strictly smaller than distance b (accumulators: inf or num/den)
Nearer(a, b) == ~a.inf /\ (b.inf \/ a.num * b.den < b.num * a.den)

\* the positions of walk[1].tested whose triangle the ray of query 1 hits
HitsTested ==
    {j \in 1..Len(walk[1].tested) :
        TriangleIntersects(At(triangles, walk[1].tested[j]), queries[1].ray).hit}
TestedHit(j) == TriangleIntersects(At(triangles, walk[1].tested[j]), queries[1].ray)

\* the accumulator is at +inf if no tested triangle was hit; else it holds
\* the hit of the first tested triangle among those at the least distance
KeepsFirstNearest ==
    IF HitsTested = {} THEN queries[1].hit.inf
    ELSE LET least == {j \in HitsTested :
                          \A k \in HitsTested : ~FracGt(TestedHit(j), TestedHit(k))}
             first == MinOf(least)
         IN  /\ ~queries[1].hit.inf
             /\ queries[1].hit.num >= 0
             /\ FracEq(queries[1].hit, TestedHit(first))
             /\ queries[1].hit.triangle_index = walk[1].tested[first]

\* a step that changes the accumulator of a running query makes its
\* distance strictly smaller
Decreases ==
    (queries[1].status = "running" /\ queries'[1].hit # queries[1].hit)
        => Nearer(queries'[1].hit, queries[1].hit)

(***************************************************************************)
(* C24  During a query the best-hit accumulator is overwritten only by a   *)
(* triangle hit whose distance is strictly smaller than the current best   *)
(* and >= 0: the accumulated distance never increases, and among           *)
(* triangles at equal distance the one tested first is kept.               *)
(***************************************************************************)
C24_AccumulatorMonotone == [](queries[1].status # "idle" => KeepsFirstNearest)
                           /\ [][Decreases]_vars

\* a query has ended having tested two different triangles at the distance
\* it reports, after a farther hit had been recorded
C24_TieKeptFirst ==
    /\ Done(1)
    /\ queries[1].result.kind = "some"
    /\ \E i, j \in HitsTested :
          /\ i < j
          /\ walk[1].tested[i] # walk[1].tested[j]
          /\ FracEq(TestedHit(i), queries[1].hit)
          /\ FracEq(TestedHit(j), queries[1].hit)
    /\ \E i \in HitsTested : FracGt(TestedHit(i), queries[1].hit)

\* the traversal of query 1 came to a leaf whose box the ray hits and whose
\* range reaches beyond the index array: it ended in a panic
WalkPanicked ==
    \E i \in 1..Len(walk[1].visited) :
        LET k == walk[1].visited[i].node
        IN  /\ IsLeaf(k)
            /\ BoxHit(k)
            /\ At(nodes, k).left_first + At(nodes, k).count > Len(indices)

(***************************************************************************)
(* C25  Bvh::intersects returns None exactly when the accumulator distance *)
(* is still +infinity after the traversal; otherwise the recorded triangle *)
(* index is a valid index into the triangle storage and names the triangle *)
(* whose intersection test produced the returned distance, and the         *)
(* returned vertex is interpolated from that triangle (it is the point of  *)
(* the ray at the returned distance).                                      *)
(***************************************************************************)
C25_NoneIffInfinite ==
    (Done(1) /\ ~WalkPanicked) =>
        /\ queries[1].result.kind \in {"none", "some"}
        /\ queries[1].result.kind = "none" <=> queries[1].hit.inf
        /\ queries[1].result.kind = "some" =>
              LET hit_info == queries[1].hit
                  test == TriangleIntersects(At(triangles, hit_info.triangle_index),
                                             queries[1].ray)
              IN  /\ InRange(triangles, hit_info.triangle_index)
                  /\ queries[1].result.triangle_index = hit_info.triangle_index
                  /\ FracEq(queries[1].result, hit_info)
                  /\ test.hit
                  /\ FracEq(test, queries[1].result)
                  /\ test.un * hit_info.den = hit_info.un * test.den
                  /\ test.vn * hit_info.den = hit_info.vn * test.den
                  /\ \A c \in 1..3 :
                        FracEq(VertexInterpolated(triangles, hit_info)[c],
                               Frac(queries[1].ray.position[c] * hit_info.den
                                    + hit_info.num * queries[1].ray.direction[c],
                                    hit_info.den))

\* a query of a tree whose index array was reordered has returned a hit on
\* a triangle that is not at the position of its own index
C25_HitAfterShuffle ==
    /\ Done(1)
    /\ ~WalkPanicked
    /\ queries[1].result.kind = "some"
    /\ At(indices, queries[1].result.triangle_index) # queries[1].result.triangle_index

\* twice the area vector of a triangle: (v1 - v0) x (v2 - v0)
AreaVector(tri) == Cross(VSub(tri.v1, tri.v0), VSub(tri.v2, tri.v0))

(***************************************************************************)
(* C26  Triangle::intersects returns a hit only when det > 0 (the ray      *)
(* meets the front of the triangle: back-facing and parallel rays give     *)
(* None), 0 <= u <= 1, v >= 0, u + v <= 1 and t > 0: every returned hit    *)
(* has distance > 0 and is the point v0 + u * edge1 + v * edge2 of the     *)
(* ray, and a zero-area triangle never produces a hit.                     *)
(***************************************************************************)
C26_TriangleHitConditions ==
    (ret # <<>> /\ ret[1].hit) =>
        LET tri == args.triangle
            r == args.ray
            det == 0 - Dot(r.direction, AreaVector(tri))
        IN  /\ det > 0
            /\ ret[1].den = det
            /\ 0 <= ret[1].un /\ ret[1].un <= det
            /\ ret[1].vn >= 0
            /\ ret[1].un + ret[1].vn <= det
            /\ ret[1].num > 0
            /\ AreaVector(tri) # <<0, 0, 0>>
            /\ \A c \in 1..3 :
                  r.position[c] * det + ret[1].num * r.direction[c]
                      = tri.v0[c] * det + ret[1].un * (tri.v1[c] - tri.v0[c])
                        + ret[1].vn * (tri.v2[c] - tri.v0[c])

\* the call has returned a hit strictly inside the triangle
C26_InteriorHit ==
    /\ ret # <<>>
    /\ ret[1].hit
    /\ ret[1].un > 0 /\ ret[1].vn > 0
    /\ ret[1].un + ret[1].vn < ret[1].den

\* b * b - c of Sphere::intersects, from the distance of the centre to the
\* line of the ray: radius^2 - (|o2c|^2 - (o2c . direction)^2), the direction
\* being a unit vector
Discriminant(sphere, r) ==
    LET o2c == VSub(r.position, sphere.position)
    IN  sphere.radius_squared
            - (Dot(o2c, o2c) - Dot(o2c, r.direction) * Dot(o2c, r.direction))

(***************************************************************************)
(* C27  Sphere::intersects returns None when the discriminant              *)
(* d = b*b - c is negative; otherwise the reported hit is the nearer       *)
(* non-negative root (the near root -b - sqrt(d) if it is >= 0, else the   *)
(* far root -b + sqrt(d)), so a returned distance is never negative for    *)
(* any ray and sphere.                                                     *)
(***************************************************************************)
C27_NearerNonNegativeRoot ==
    ret # <<>> =>
        LET b == Dot(VSub(args.ray.position, args.sphere.position), args.ray.direction)
            d == Discriminant(args.sphere, args.ray)
            near == Surd(0 - b, -1, d)
            far == Surd(0 - b, 1, d)
        IN  /\ d < 0 => ~ret[1].some
            /\ d >= 0 =>
                  /\ ret[1].some
                  /\ ret[1].distance = IF SurdSign(near) >= 0 THEN near ELSE far
            /\ ret[1].some => SurdSign(ret[1].distance) >= 0

\* how many draw_aabb calls were made for node k
Drawn(k) == Cardinality({i \in 1..Len(line_queue) : line_queue[i] = k})

(***************************************************************************)
(* C28  The debug tree walk draw_bvh terminates for every constructed BVH  *)
(* (including one built from an empty list): it neither exhausts the stack *)
(* nor panics, and when it has returned it has drawn the bounding box of   *)
(* every node of the tree exactly once, both children of every internal    *)
(* node included.                                                          *)
(***************************************************************************)
C28_DrawsEveryNodeOnce ==
    /\ draw.pc \notin {"overflow", "panic"}
    /\ draw.pc = "returned" =>
          /\ \A k \in NodeIds : Drawn(k) = 1
          /\ \A k \in NodeIds : IsInternal(k) => \A c \in Children(k) : Drawn(c) = 1

\* the pixel has been traced without a panic of Bvh::intersects
Shaded == ret # <<>> /\ ~ret[1].panic

\* the distances of the hits Bvh::intersects returns for the queued meshes
MeshHits ==
    {DistOfFrac(r.num, r.den) :
        r \in {m \in {BvhIntersects(args.mesh_queue[i].bvh.nodes,
                                    args.mesh_queue[i].bvh.indices,
                                    args.mesh_queue[i].bvh.triangles, args.ray) :
                         i \in {j \in 1..Len(args.mesh_queue) : args.mesh_queue[j].some}} :
                  m.kind = "some"}}

\* the distances of the hits Sphere::intersects returns for the queued spheres
SphereHits ==
    {DistOfSurd(r.distance) :
        r \in {h \in {SphereIntersects(args.sphere_queue[i], args.ray) :
                         i \in 1..Len(args.sphere_queue)} : h.some}}

DistEq(x, y) == ~DistLt(x, y) /\ ~DistLt(y, x)

\* hit_info holds the least distance of S, or +infinity when S is empty
HoldsMinimumOf(hit_info, S) ==
    IF S = {} THEN hit_info.inf
    ELSE /\ ~hit_info.inf
         /\ \E x \in S : DistEq(x, hit_info.distance)
         /\ \A x \in S : ~DistLt(x, hit_info.distance)

(***************************************************************************)
(* C29 as stated: for each pixel the hit finally used for shading has the  *)
(* minimum distance among the hits returned by Bvh::intersects for every   *)
(* queued mesh and by Sphere::intersects for every queued sphere; a sphere *)
(* hit with distance <= 0 is never selected, and when nothing is hit the   *)
(* accumulator keeps distance +infinity.                                   *)
(***************************************************************************)
C29_MinimumOfReturned ==
    Shaded =>
        /\ HoldsMinimumOf(ret[1].hit, MeshHits \cup SphereHits)
        /\ ~ret[1].hit.inf => DistPositive(ret[1].hit.distance)

(***************************************************************************)
(* C29 amended: for each pixel the hit finally used for shading has the    *)
(* minimum distance among the hits returned by Bvh::intersects for every   *)
(* queued mesh and the hits with distance > 0 returned by                  *)
(* Sphere::intersects for every queued sphere; a sphere hit with distance  *)
(* <= 0 is never selected, and when no mesh is hit and no sphere is hit at *)
(* a distance > 0 the accumulator keeps distance +infinity.                *)
(***************************************************************************)
C29_MinimumOfAccepted ==
    Shaded =>
        /\ HoldsMinimumOf(ret[1].hit, MeshHits \cup {x \in SphereHits : DistPositive(x)})
        /\ ~ret[1].hit.inf => DistPositive(ret[1].hit.distance)

\* a pixel shaded with the nearest of a mesh hit and a sphere hit, a sphere hit
\* with distance <= 0 having been returned as well
C29_NearestWithSphereBehind ==
    /\ Shaded
    /\ MeshHits # {}
    /\ \E x \in SphereHits : DistPositive(x)
    /\ \E x \in SphereHits : ~DistPositive(x)
    /\ ~ret[1].hit.inf

\* the internal nodes whose stored left_first names c as their left or right child
StoredParents(c) ==
    {k \in NodeIds : IsInternal(k)
                     /\ c \in {At(nodes, k).left_first, At(nodes, k).left_first + 1}}

(***************************************************************************)
(* C30  The node array of every constructed BVH forms a binary tree rooted *)
(* at node 0: every node other than the root is the child of exactly one   *)
(* internal node, a child's index is always greater than its parent's, and *)
(* the number of nodes equals 2 * (number of internal nodes) + 1 and is at *)
(* most 2n - 1 for n >= 1 triangles.                                       *)
(***************************************************************************)
C30_BinaryTree ==
    pc = "built" =>
        /\ StoredParents(0) = {}
        /\ \A c \in NodeIds \ {0} :
              /\ Cardinality(StoredParents(c)) = 1
              /\ \A k \in StoredParents(c) : c > k /\ k = At(parent, c)
        /\ \A k \in NodeIds : IsInternal(k) =>
              /\ At(nodes, k).left_first \in NodeIds
              /\ At(nodes, k).left_first + 1 \in NodeIds
        /\ Len(nodes) = 2 * Cardinality({k \in NodeIds : IsInternal(k)}) + 1
        /\ Len(input) >= 1 => Len(nodes) <= 2 * Len(input) - 1

\* a constructed tree of two internal nodes and three leaves
C30_FiveNodes ==
    /\ pc = "built"
    /\ Len(nodes) = 5
    /\ Cardinality({k \in NodeIds : IsInternal(k)}) = 2

====
